---- MODULE Spec2Model ----
(***************************************************************************)
(* Model of vector_functions.py: file-type dispatch (load_document), the    *)
(* persisted Chroma collections (create_collection, load_collection,        *)
(* load_retriever, add_documents_to_collection) and the question-answering   *)
(* chain (ask_question).                                                     *)
(*                                                                           *)
(* Every function of the module is one action that runs the whole function   *)
(* body: it records the delegated calls it made, in order, in cur.calls,     *)
(* and its return value or the exception it ended with.  A delegated call    *)
(* (a loader, the splitter, the vector store, the retriever, the chat model) *)
(* may raise: the environment picks the call that raises (fail.at) and the   *)
(* exception (fail.err).  Return models the caller taking the result.        *)
(***************************************************************************)
EXTENDS Integers, Sequences, FiniteSets, Bags, TLC

VARIABLES
    store,  \* address -> bag of chunk texts: the collections on disk
    added,  \* address -> bag of all chunk texts the store accepted (history)
    cur     \* the call that just ran (its trace and result), or Idle

vars == <<store, added, cur>>

---------------------------------------------------------------------------
(* Bounds of the model *)

MaxPathLen == 5     \* tokens in a file path (SpecLoad)
MaxParas == 2       \* paragraphs in an input document
MaxDocs == 1        \* documents in one call
StoreCap == 2       \* chunks held by the store (Spec)
QueryCap == 6       \* chunks held by the store (SpecQuery)
AltK == 2           \* a caller-supplied k other than the default

---------------------------------------------------------------------------
(* Values *)

NoneVal == [type |-> "None"]
Idle == [op |-> "idle"]
NoFail == [at |-> 0, err |-> "none"]
Errors == {"OSError", "APIError"}

\* fail.at = i: the i-th delegated call of the operation raises fail.err
Fails(n) == {NoFail} \cup [at : 1..n, err : Errors]

Call(fn, arg, raised, val) == [fn |-> fn, arg |-> arg, raised |-> raised, val |-> val]
Ok(fn, arg, val) == Call(fn, arg, FALSE, val)
Raise(fn, arg, err) == Call(fn, arg, TRUE, [type |-> "Exception", err |-> err])

\* the outcome of delegated call number i under the failure choice
Do(i, fail, fn, arg, val) ==
    IF fail.at = i THEN Raise(fn, arg, fail.err) ELSE Ok(fn, arg, val)

Fns(calls) == [i \in 1..Len(calls) |-> calls[i].fn]

---------------------------------------------------------------------------
(* load_document *)

Sep == "/"
Dot == "."
Extensions == {"txt", "pdf", "docx", "csv", "html", "md"}
Words == Extensions \cup {"json", "TXT"}

\* a path is a sequence of tokens: separators, dots and dot-free words
Paths(words, n) == UNION {[1..m -> {Sep, Dot} \cup words] : m \in 0..n}

\* str.rfind, 1-based, 0 when absent
rfind(p, t) ==
    LET hits == {i \in 1..Len(p) : p[i] = t}
    IN IF hits = {} THEN 0 ELSE CHOOSE i \in hits : \A j \in hits : j <= i

\* (mutant) the suffix taken from the first dot of the file name
splitext_first_dot(p) ==
    LET sepIndex == rfind(p, Sep)
        dots == {i \in (sepIndex + 1)..Len(p) : p[i] = Dot}
        named == {i \in dots : \E j \in (sepIndex + 1)..(i - 1) : p[j] # Dot}
    IN IF named # {}
       THEN LET dotIndex == CHOOSE i \in named : \A j \in named : i <= j
            IN <<SubSeq(p, 1, dotIndex - 1), SubSeq(p, dotIndex, Len(p))>>
       ELSE <<p, <<>>>>

\* os.path.splitext: <<root, ext>>; leading dots of the file name are no suffix
splitext(p) ==
    LET sepIndex == rfind(p, Sep)
        dotIndex == rfind(p, Dot)
    IN IF dotIndex > sepIndex
          /\ \E j \in (sepIndex + 1)..(dotIndex - 1) : p[j] # Dot
       THEN <<SubSeq(p, 1, dotIndex - 1), SubSeq(p, dotIndex, Len(p))>>
       ELSE <<p, <<>>>>

\* (mutant) the .csv arm builds the loader of the .txt arm
LoaderClass_csv_as_text(file_extension) ==
    IF file_extension = <<Dot, "txt">> THEN "TextLoader"
    ELSE IF file_extension = <<Dot, "pdf">> THEN "PyPDFLoader"
    ELSE IF file_extension = <<Dot, "docx">> THEN "Docx2txtLoader"
    ELSE IF file_extension = <<Dot, "csv">> THEN "TextLoader"
    ELSE IF file_extension = <<Dot, "html">> THEN "UnstructuredHTMLLoader"
    ELSE IF file_extension = <<Dot, "md">> THEN "UnstructuredMarkdownLoader"
    ELSE "none"

\* the if/elif chain: the loader class for an extension, "none" for the else arm
LoaderClass(file_extension) ==
    IF file_extension = <<Dot, "txt">> THEN "TextLoader"
    ELSE IF file_extension = <<Dot, "pdf">> THEN "PyPDFLoader"
    ELSE IF file_extension = <<Dot, "docx">> THEN "Docx2txtLoader"
    ELSE IF file_extension = <<Dot, "csv">> THEN "CSVLoader"
    ELSE IF file_extension = <<Dot, "html">> THEN "UnstructuredHTMLLoader"
    ELSE IF file_extension = <<Dot, "md">> THEN "UnstructuredMarkdownLoader"
    ELSE "none"

\* (mutant) the message names the file type without the extension
UnsupportedFileType_no_ext(file_extension) ==
    [type |-> "ValueError", msg |-> <<"Unsupported file type: ">>]

UnsupportedFileType(file_extension) ==
    [type |-> "ValueError", msg |-> <<"Unsupported file type: ">> \o file_extension]

\* what a loader's load() may hand back: opaque document lists
LoadedDocs == {"docs1", "docs2"}

load_document(file_path, loaded, fail) ==
    LET file_extension == splitext(file_path)[2]
        cls == LoaderClass(file_extension)
        loader == [cls |-> cls, file_path |-> file_path]
        c1 == Do(1, fail, cls, [file_path |-> file_path], loader)
        c2 == Do(2, fail, "load", [loader |-> loader], [documents |-> loaded])
        calls == IF cls = "none" THEN <<>>
                 ELSE IF c1.raised THEN <<c1>>
                 ELSE <<c1, c2>>
        final == IF cls = "none" THEN UnsupportedFileType(file_extension)
                 ELSE calls[Len(calls)].val
    IN [op |-> "load_document", args |-> [file_path |-> file_path],
        calls |-> calls,
        raised |-> (cls = "none" \/ calls[Len(calls)].raised), result |-> final]

LoadDocument(file_path, loaded, fail) ==
    /\ cur = Idle
    /\ cur' = load_document(file_path, loaded, fail)
    /\ UNCHANGED <<store, added>>

Return ==
    /\ cur # Idle
    /\ cur' = Idle
    /\ UNCHANGED <<store, added>>

---------------------------------------------------------------------------
(* text_splitter = CharacterTextSplitter(chunk_size=1000, chunk_overlap=0) *)

chunk_size == 1000
chunk_overlap == 0
SeparatorLen == 2   \* the splitter's default separator, "\n\n"

\* A document is the sequence of the lengths of its paragraphs (what lies
\* between separators). The lengths that matter sit at the chunk size: two
\* short paragraphs and a separator fill a chunk exactly, a long one exceeds it.
ParaLens == {(chunk_size - SeparatorLen) \div 2, chunk_size + 1}
Docs(np) == UNION {[1..m -> ParaLens] : m \in 0..np}
DocLists(nd, np) == UNION {[1..m -> Docs(np)] : m \in 0..nd}

SepBefore(current_doc) == IF Len(current_doc) > 0 THEN SeparatorLen ELSE 0

\* _merge_splits, the inner loop: drop splits from the front of current_doc
\* until what is kept is within the overlap and the next split fits
RECURSIVE PopSplits(_, _, _, _)
PopSplits(doc, current_doc, total, len) ==
    IF \/ total > chunk_overlap
       \/ (total + len + SepBefore(current_doc) > chunk_size /\ total > 0)
    THEN PopSplits(doc, Tail(current_doc),
                   total - (doc[Head(current_doc)]
                            + (IF Len(current_doc) > 1 THEN SeparatorLen ELSE 0)),
                   len)
    ELSE <<current_doc, total>>

\* _merge_splits over the splits i..Len(doc): the chunks, each the sequence of
\* the indices of the paragraphs joined into it
RECURSIVE MergeSplits(_, _, _, _, _)
MergeSplits(doc, i, docs, current_doc, total) ==
    IF i > Len(doc)
    THEN IF current_doc # <<>> THEN Append(docs, current_doc) ELSE docs
    ELSE LET len == doc[i]
             full == total + len + SepBefore(current_doc) > chunk_size
             flush == full /\ current_doc # <<>>
             kept == IF flush THEN PopSplits(doc, current_doc, total, len)
                     ELSE <<current_doc, total>>
             current2 == Append(kept[1], i)
             total2 == kept[2] + len
                       + (IF Len(current2) > 1 THEN SeparatorLen ELSE 0)
         IN MergeSplits(doc, i + 1,
                        IF flush THEN Append(docs, current_doc) ELSE docs,
                        current2, total2)

split_text(doc) == MergeSplits(doc, 1, <<>>, <<>>, 0)

\* split_documents: the chunks of every document, in order; a chunk names its
\* document and the paragraphs it joins
RECURSIVE split_documents(_)
split_documents(documents) ==
    IF documents = <<>> THEN <<>>
    ELSE LET n == Len(documents)
             parts == split_text(documents[n])
         IN split_documents(SubSeq(documents, 1, n - 1))
            \o [j \in 1..Len(parts) |-> [doc |-> n, paras |-> parts[j]]]

\* page_content of a chunk: the paragraphs it joins
Text(documents, chunk) ==
    [j \in 1..Len(chunk.paras) |-> documents[chunk.doc][chunk.paras[j]]]

RECURSIVE SumSeq(_)
SumSeq(s) == IF s = <<>> THEN 0 ELSE Head(s) + SumSeq(Tail(s))

\* len(page_content): the paragraphs and the separators joining them
TextLen(text) ==
    IF text = <<>> THEN 0 ELSE SumSeq(text) + SeparatorLen * (Len(text) - 1)

Texts(documents, chunks) == [j \in 1..Len(chunks) |-> Text(documents, chunks[j])]

---------------------------------------------------------------------------
(* Persisted collections *)

persist_directory == "./persist"
Dirs == {persist_directory, "./elsewhere"}
Names == {"n1", "n2"}
Addresses == [dir : Dirs, name : Names]

SeqToBag(s) ==
    [x \in {s[i] : i \in DOMAIN s} |-> Cardinality({i \in DOMAIN s : s[i] = x})]

\* (mutant) the texts replace what the collection held
AddTexts_replace(st, addr, texts) == [st EXCEPT ![addr] = SeqToBag(texts)]

\* Chroma opens the named collection of the directory, creating it when it is
\* not there, and adds the texts to it
AddTexts(st, addr, texts) == [st EXCEPT ![addr] = @ (+) SeqToBag(texts)]

IsWrite(c) == c.fn \in {"Chroma.from_documents", "add_documents"} /\ ~c.raised

\* the store after the delegated calls of one operation
RECURSIVE StoreAfter(_, _)
StoreAfter(st, calls) ==
    IF calls = <<>> THEN st
    ELSE LET c == Head(calls)
         IN StoreAfter(IF IsWrite(c) THEN AddTexts(st, c.arg.addr, c.arg.page_contents)
                       ELSE st,
                       Tail(calls))

\* history: the texts the store accepted for an address during one operation
Accepted(calls, addr) ==
    LET idx == {i \in DOMAIN calls : IsWrite(calls[i]) /\ calls[i].arg.addr = addr}
    IN IF idx = {} THEN EmptyBag
       ELSE LET i == CHOOSE j \in idx : TRUE
            IN SeqToBag(calls[i].arg.page_contents)

Finish(op, args, calls, ret) ==
    LET last == calls[Len(calls)]
    IN [op |-> op, args |-> args, calls |-> calls, raised |-> last.raised,
        result |-> IF last.raised THEN last.val ELSE ret]

Chroma(addr) == [type |-> "Chroma", addr |-> addr]

\* (mutant) persist() runs whether or not the store took the chunks
create_collection_persist_anyway(collection_name, documents, fail) ==
    LET texts == split_documents(documents)
        c1 == Do(1, fail, "split_documents", [documents |-> documents],
                 [texts |-> texts])
        addr == [dir |-> persist_directory, name |-> collection_name]
        vectordb == Chroma(addr)
        c2 == Do(2, fail, "Chroma.from_documents",
                 [texts |-> texts, page_contents |-> Texts(documents, texts),
                  addr |-> addr],
                 vectordb)
        c3 == Do(3, fail, "persist", [vectordb |-> vectordb], NoneVal)
        calls == IF c1.raised THEN <<c1>> ELSE <<c1, c2, c3>>
    IN Finish("create_collection",
              [collection_name |-> collection_name, documents |-> documents],
              calls, NoneVal)

create_collection(collection_name, documents, fail) ==
    LET texts == split_documents(documents)
        c1 == Do(1, fail, "split_documents", [documents |-> documents],
                 [texts |-> texts])
        addr == [dir |-> persist_directory, name |-> collection_name]
        vectordb == Chroma(addr)
        c2 == Do(2, fail, "Chroma.from_documents",
                 [texts |-> texts, page_contents |-> Texts(documents, texts),
                  addr |-> addr],
                 vectordb)
        c3 == Do(3, fail, "persist", [vectordb |-> vectordb], NoneVal)
        calls == IF c1.raised THEN <<c1>>
                 ELSE IF c2.raised THEN <<c1, c2>>
                 ELSE <<c1, c2, c3>>
    IN Finish("create_collection",
              [collection_name |-> collection_name, documents |-> documents],
              calls, NoneVal)

\* (mutant) the collection is looked up in another directory
load_collection_elsewhere(collection_name, fail) ==
    LET addr == [dir |-> "./elsewhere", name |-> collection_name]
        c1 == Do(1, fail, "Chroma", [addr |-> addr], Chroma(addr))
    IN Finish("load_collection", [collection_name |-> collection_name],
              <<c1>>, c1.val)

load_collection(collection_name, fail) ==
    LET addr == [dir |-> persist_directory, name |-> collection_name]
        c1 == Do(1, fail, "Chroma", [addr |-> addr], Chroma(addr))
    IN Finish("load_collection", [collection_name |-> collection_name],
              <<c1>>, c1.val)

\* an optional argument: given by the caller, or left to its default
Given(v) == [given |-> TRUE, value |-> v]
Omitted == [given |-> FALSE]
DefaultSearchType == "similarity"
DefaultK == 5
OrDefault(arg, default) == IF arg.given THEN arg.value ELSE default

Retriever(vectordb, search_type, k) ==
    [type |-> "Retriever", addr |-> vectordb.addr, search_type |-> search_type,
     k |-> k]

\* (mutant) k does not reach the retriever, which keeps the library's own
load_retriever_drops_k(collection_name, search_type_arg, k_arg, fail) ==
    LET search_type == OrDefault(search_type_arg, DefaultSearchType)
        inner == load_collection(collection_name, fail)
        vectordb == inner.result
        c2 == Do(2, fail, "as_retriever",
                 [vectordb |-> vectordb, search_type |-> search_type, k |-> 4],
                 Retriever(vectordb, search_type, 4))
        calls == IF inner.raised THEN inner.calls ELSE inner.calls \o <<c2>>
    IN Finish("load_retriever",
              [collection_name |-> collection_name,
               search_type |-> search_type_arg, k |-> k_arg],
              calls, c2.val)

load_retriever(collection_name, search_type_arg, k_arg, fail) ==
    LET search_type == OrDefault(search_type_arg, DefaultSearchType)
        k == OrDefault(k_arg, DefaultK)
        inner == load_collection(collection_name, fail)
        vectordb == inner.result
        c2 == Do(2, fail, "as_retriever",
                 [vectordb |-> vectordb, search_type |-> search_type, k |-> k],
                 Retriever(vectordb, search_type, k))
        calls == IF inner.raised THEN inner.calls ELSE inner.calls \o <<c2>>
    IN Finish("load_retriever",
              [collection_name |-> collection_name,
               search_type |-> search_type_arg, k |-> k_arg],
              calls, c2.val)

\* (mutant) persist() runs before the chunks are added
add_documents_persist_first(vectordb, documents, fail) ==
    LET texts == split_documents(documents)
        c1 == Do(1, fail, "split_documents", [documents |-> documents],
                 [texts |-> texts])
        c2 == Do(2, fail, "persist", [vectordb |-> vectordb], NoneVal)
        c3 == Do(3, fail, "add_documents",
                 [texts |-> texts, page_contents |-> Texts(documents, texts),
                  addr |-> vectordb.addr],
                 NoneVal)
        calls == IF c1.raised THEN <<c1>>
                 ELSE IF c2.raised THEN <<c1, c2>>
                 ELSE <<c1, c2, c3>>
    IN Finish("add_documents_to_collection",
              [vectordb |-> vectordb, documents |-> documents], calls, NoneVal)

add_documents_to_collection(vectordb, documents, fail) ==
    LET texts == split_documents(documents)
        c1 == Do(1, fail, "split_documents", [documents |-> documents],
                 [texts |-> texts])
        c2 == Do(2, fail, "add_documents",
                 [texts |-> texts, page_contents |-> Texts(documents, texts),
                  addr |-> vectordb.addr],
                 NoneVal)
        c3 == Do(3, fail, "persist", [vectordb |-> vectordb], NoneVal)
        calls == IF c1.raised THEN <<c1>>
                 ELSE IF c2.raised THEN <<c1, c2>>
                 ELSE <<c1, c2, c3>>
    IN Finish("add_documents_to_collection",
              [vectordb |-> vectordb, documents |-> documents], calls, NoneVal)

---------------------------------------------------------------------------
(* Retrieval and ask_question *)

Min(a, b) == IF a <= b THEN a ELSE b

\* what a search of the retriever's collection may return: k of its chunks, or
\* all of them when it holds fewer; which ones is the embedding's business
SearchResults(st, retriever) ==
    LET coll == st[retriever.addr]
        n == Min(retriever.k, BagCardinality(coll))
    IN {b \in SubBag(coll) : BagCardinality(b) = n}

Str(s) == [type |-> "str", value |-> s]
Dict(question) == [type |-> "dict", question |-> question]

Questions == {"q1", "q2"}
Answers == {"a1", "a2"}

\* retriever.invoke(query), as a caller of load_retriever uses its result
retriever_invoke(retriever, query, found, fail) ==
    LET c1 == Do(1, fail, "retriever.invoke",
                 [retriever |-> retriever, input |-> Str(query)],
                 [documents |-> found])
    IN Finish("retriever.invoke", [retriever |-> retriever, query |-> query],
              <<c1>>, c1.val)

\* rag_chain.invoke({"question": question}).content, the chain being
\* {"context": retriever, "question": RunnablePassthrough()} | prompt | llm:
\* both branches of the first step receive the chain's input
ask_question(retriever, question, found, answer, fail) ==
    LET input == Dict(question)
        c1 == Do(1, fail, "retriever.invoke",
                 [retriever |-> retriever, input |-> input],
                 [documents |-> found])
        passed == input
        filled == [template |-> "message", question |-> passed,
                   context |-> c1.val]
        c2 == Do(2, fail, "prompt.invoke",
                 [question |-> passed, context |-> c1.val], filled)
        reply == [type |-> "AIMessage", content |-> answer]
        c3 == Do(3, fail, "llm.invoke", [prompt |-> filled], reply)
        calls == IF c1.raised THEN <<c1>>
                 ELSE IF c2.raised THEN <<c1, c2>>
                 ELSE <<c1, c2, c3>>
    IN Finish("ask_question", [retriever |-> retriever, question |-> question],
              calls, Str(reply.content))

---------------------------------------------------------------------------
(* Actions *)

Ran(result) ==
    /\ cur = Idle
    /\ cur' = result
    /\ store' = StoreAfter(store, result.calls)
    /\ added' = [a \in Addresses |-> added[a] (+) Accepted(result.calls, a)]

CreateCollection(collection_name, documents, fail) ==
    Ran(create_collection(collection_name, documents, fail))

LoadCollection(collection_name, fail) ==
    Ran(load_collection(collection_name, fail))

LoadRetriever(collection_name, search_type_arg, k_arg, fail) ==
    Ran(load_retriever(collection_name, search_type_arg, k_arg, fail))

AddDocumentsToCollection(vectordb, documents, fail) ==
    Ran(add_documents_to_collection(vectordb, documents, fail))

RetrieverInvoke(retriever, query, found, fail) ==
    /\ found \in SearchResults(store, retriever)
    /\ Ran(retriever_invoke(retriever, query, found, fail))

AskQuestion(retriever, question, found, answer, fail) ==
    /\ found \in SearchResults(store, retriever)
    /\ Ran(ask_question(retriever, question, found, answer, fail))

---------------------------------------------------------------------------
(* Specifications *)

Init ==
    /\ store = [a \in Addresses |-> EmptyBag]
    /\ added = [a \in Addresses |-> EmptyBag]
    /\ cur = Idle

\* the environment's choices that matter for a path: none when no loader runs
LoadOutcomes(p) ==
    IF LoaderClass(splitext(p)[2]) = "none"
    THEN {[loaded |-> "docs1", fail |-> NoFail]}
    ELSE [loaded : LoadedDocs, fail : Fails(2)]

\* the module is single-threaded: a call starts when no other is running
WhenIdle(S) == IF cur = Idle THEN S ELSE {}

\* load_document reads and writes nothing of the module: one call per path.
\* Paths over every extension of the dispatch and one it does not know.
NextLoad ==
    \E p \in WhenIdle(Paths(Extensions \cup {"json"}, MaxPathLen)) :
        \E o \in LoadOutcomes(p) : LoadDocument(p, o.loaded, o.fail)

SpecLoad == Init /\ [][NextLoad]_vars

\* Paths over few words, among them one that differs from an extension by
\* case only.
NextSuffix ==
    \E p \in WhenIdle(Paths({"txt", "pdf", "json", "TXT"}, MaxPathLen)) :
        \E o \in LoadOutcomes(p) : LoadDocument(p, o.loaded, o.fail)

SpecSuffix == Init /\ [][NextSuffix]_vars

\* what callers hold: the values load_collection and load_retriever return
Handles == {load_collection(n, NoFail).result : n \in Names}
SearchTypes == {DefaultSearchType, "mmr"}
SearchTypeArgs == {Omitted} \cup {Given(t) : t \in SearchTypes}
KArgs == {Omitted} \cup {Given(k) : k \in {AltK, DefaultK}}
Retrievers ==
    {load_retriever(n, t, k, NoFail).result :
        n \in Names, t \in SearchTypeArgs, k \in KArgs}

Stored(st) == BagCardinality(st[[dir |-> persist_directory, name |-> "n1"]])
              + BagCardinality(st[[dir |-> persist_directory, name |-> "n2"]])

Fits(documents, cap) == Stored(store) + Len(split_documents(documents)) <= cap

\* one path for every arm of the dispatch
SamplePaths == {<<"json", Dot, w>> : w \in Words}

NextIngest(docLists, cap) ==
    \/ \E n \in WhenIdle(Names), d \in docLists, f \in Fails(3) :
          Fits(d, cap) /\ CreateCollection(n, d, f)
    \/ \E v \in WhenIdle(Handles), d \in docLists, f \in Fails(3) :
          Fits(d, cap) /\ AddDocumentsToCollection(v, d, f)
    \/ \E n \in WhenIdle(Names), f \in Fails(1) : LoadCollection(n, f)
    \/ \E n \in WhenIdle(Names), t \in SearchTypeArgs, k \in KArgs, f \in Fails(2) :
          LoadRetriever(n, t, k, f)

NextAsk ==
    \/ \E r \in WhenIdle(Retrievers), q \in Questions, f \in Fails(1) :
          \E found \in SearchResults(store, r) : RetrieverInvoke(r, q, found, f)
    \/ \E r \in WhenIdle(Retrievers), q \in Questions, a \in Answers, f \in Fails(3) :
          \E found \in SearchResults(store, r) : AskQuestion(r, q, found, a, f)

Next ==
    \/ \E p \in WhenIdle(SamplePaths) : \E o \in LoadOutcomes(p) :
          LoadDocument(p, o.loaded, o.fail)
    \/ NextIngest(DocLists(MaxDocs, MaxParas), StoreCap)
    \/ NextAsk
    \/ Return

Spec == Init /\ [][Next]_vars

\* queries over collections large enough for k to cut the result
QueryDocLists == {<< <<len>> >> : len \in ParaLens}

NextQuery ==
    \/ NextIngest(QueryDocLists, QueryCap)
    \/ NextAsk
    \/ Return

SpecQuery == Init /\ [][NextQuery]_vars

---------------------------------------------------------------------------
(* Claims about load_document, checked under SpecLoad *)

\* The table the documentation gives: suffix word -> loader
LoaderTable ==
    [txt |-> "TextLoader", pdf |-> "PyPDFLoader", docx |-> "Docx2txtLoader",
     csv |-> "CSVLoader", html |-> "UnstructuredHTMLLoader",
     md |-> "UnstructuredMarkdownLoader"]
Supported == DOMAIN LoaderTable

\* The final suffix of a path, said without reference to how the code finds
\* it: the text from a dot of the last path component on, when no dot or
\* separator follows that dot and the component has a character other than a
\* dot before it; empty when there is no such dot.
SuffixStarts(p) ==
    {k \in 1..Len(p) :
        /\ p[k] = Dot
        /\ \A i \in (k + 1)..Len(p) : p[i] \notin {Dot, Sep}
        /\ \E j \in 1..(k - 1) :
              /\ p[j] \notin {Dot, Sep}
              /\ \A i \in j..(k - 1) : p[i] # Sep}
FinalSuffix(p) ==
    LET starts == SuffixStarts(p)
    IN IF starts = {} THEN <<>>
       ELSE SubSeq(p, CHOOSE k \in starts : TRUE, Len(p))

Loaded == cur.op = "load_document"

\* C1: a path whose extension is one of the six supported ones is dispatched
\* to the loader the table assigns to it, the loader is constructed with the
\* unmodified path, and the function returns what that loader's load() does.
C1_DispatchTable ==
    Loaded =>
      LET suffix == FinalSuffix(cur.args.file_path)
      IN \A w \in Supported :
            suffix = <<Dot, w>> =>
                LET made == [cls |-> LoaderTable[w],
                             file_path |-> cur.args.file_path]
                IN /\ Len(cur.calls) >= 1
                   /\ cur.calls[1].fn = LoaderTable[w]
                   /\ cur.calls[1].arg.file_path = cur.args.file_path
                   /\ ~cur.calls[1].raised =>
                         /\ Len(cur.calls) = 2
                         /\ cur.calls[2].fn = "load"
                         /\ cur.calls[2].arg.loader = made
                         /\ cur.raised = cur.calls[2].raised
                         /\ cur.result = cur.calls[2].val

C1_Witness ==
    /\ Loaded
    /\ cur.args.file_path = <<"json", Sep, "md", Dot, "csv">>
    /\ ~cur.raised
    /\ cur.result = [documents |-> "docs2"]

\* C2: a path whose extension is none of the six ends in the ValueError
\* "Unsupported file type: <extension>", and no loader is constructed and no
\* load() is called.
C2_UnsupportedRaises ==
    Loaded =>
      LET suffix == FinalSuffix(cur.args.file_path)
      IN (\A w \in Supported : suffix # <<Dot, w>>) =>
            /\ cur.raised
            /\ cur.result.type = "ValueError"
            /\ cur.result.msg = <<"Unsupported file type: ">> \o suffix
            /\ cur.calls = <<>>

C2_Witness ==
    /\ Loaded
    /\ cur.args.file_path = <<"txt", Dot, "json">>
    /\ cur.raised
    /\ cur.result.msg = <<"Unsupported file type: ", Dot, "json">>

NameStart(p) == rfind(p, Sep) + 1
DotsInName(p) == {i \in NameStart(p)..Len(p) : p[i] = Dot}
Rejected(ext) ==
    /\ cur.raised
    /\ cur.calls = <<>>
    /\ cur.result = [type |-> "ValueError",
                     msg |-> <<"Unsupported file type: ">> \o ext]

\* C10: the file type is decided by the final suffix alone, compared exactly:
\* a name with several dots goes to the loader of its last suffix; an
\* upper-case suffix, a name without a suffix and a name that is only a
\* leading-dot name are rejected with the unsupported-file-type ValueError.
C10_FinalSuffixExact ==
    Loaded =>
        LET p == cur.args.file_path
            n == Len(p)
        IN /\ \A w \in Supported :
                 (/\ n >= NameStart(p) + 4
                  /\ p[n] = w /\ p[n - 1] = Dot
                  /\ p[n - 2] \in Words /\ p[n - 3] = Dot
                  /\ p[n - 4] \in Words)
                 => (Len(cur.calls) >= 1 /\ cur.calls[1].fn = LoaderTable[w])
           /\ (n >= NameStart(p) + 2 /\ p[n] = "TXT" /\ p[n - 1] = Dot
               /\ p[n - 2] \in Words)
              => Rejected(<<Dot, "TXT">>)
           /\ DotsInName(p) = {} => Rejected(<<>>)
           /\ (n = NameStart(p) + 1 /\ p[n - 1] = Dot /\ p[n] \in Words)
              => Rejected(<<>>)

C10_Witness ==
    /\ Loaded
    /\ cur.args.file_path = <<"json", Dot, "pdf", Dot, "txt">>
    /\ Len(cur.calls) = 2
    /\ cur.calls[1].fn = "TextLoader"
    /\ ~cur.raised

---------------------------------------------------------------------------
(* Claims about the collections and the chain, checked under Spec and        *)
(* SpecQuery                                                                 *)

Running == cur.op # "idle"
Persisted(name) == [dir |-> "./persist", name |-> name]
IsIngest == cur.op \in {"create_collection", "add_documents_to_collection"}
WriteFn == IF cur.op = "create_collection" THEN "Chroma.from_documents"
           ELSE "add_documents"
IsPrefix(s, t) == Len(s) <= Len(t) /\ s = SubSeq(t, 1, Len(s))

\* C3: ask_question retrieves, formats the prompt and calls the model, in that
\* order and once each: the retriever is queried with the question string, the
\* template's question slot holds that string and its context slot what the
\* retriever returned, the model gets the formatted prompt, and the text of
\* its reply is returned.
C3_AskQuestionPipeline ==
    cur.op = "ask_question" =>
        LET question == Str(cur.args.question)
            n == Len(cur.calls)
        IN /\ IsPrefix(Fns(cur.calls),
                       <<"retriever.invoke", "prompt.invoke", "llm.invoke">>)
           /\ cur.calls[1].arg.retriever = cur.args.retriever
           /\ cur.calls[1].arg.input = question
           /\ n >= 2 => /\ cur.calls[2].arg.question = question
                        /\ cur.calls[2].arg.context = cur.calls[1].val
           /\ n >= 3 => cur.calls[3].arg.prompt = cur.calls[2].val
           /\ ~cur.raised => /\ n = 3
                             /\ cur.result = Str(cur.calls[3].val.content)

\* C4: once create_collection(name, documents) has completed, load_collection
\* and load_retriever of that name address the collection it wrote, directory
\* ./persist and that name, whatever loads came in between; the content it
\* added is still there, and a query through the retriever returns chunks of
\* that collection (some, when it holds any).
C4_CreateThenLoad ==
    /\ \A a \in Addresses : added[a] \sqsubseteq store[a]
    /\ (cur.op = "create_collection" /\ ~cur.raised) =>
          /\ cur.calls[2].arg.addr = Persisted(cur.args.collection_name)
          /\ SeqToBag(cur.calls[2].arg.page_contents)
                \sqsubseteq added[Persisted(cur.args.collection_name)]
    /\ (cur.op \in {"load_collection", "load_retriever"} /\ ~cur.raised) =>
          cur.result.addr = Persisted(cur.args.collection_name)
    /\ (cur.op = "retriever.invoke" /\ ~cur.raised) =>
          \E name \in Names :
             /\ cur.args.retriever.addr = Persisted(name)
             /\ cur.result.documents \sqsubseteq store[Persisted(name)]
             /\ added[Persisted(name)] # EmptyBag
                   => cur.result.documents # EmptyBag

C4_Witness ==
    /\ cur.op = "retriever.invoke"
    /\ ~cur.raised
    /\ cur.args.retriever.addr = Persisted("n2")
    /\ BagCardinality(added[Persisted("n2")]) = 2
    /\ cur.result.documents = added[Persisted("n2")]

\* C5: every chunk handed to the vector store is at most 1000 characters long,
\* and two chunks of one document share no text.
C5_ChunksWithinSize ==
    Running =>
        \A i \in DOMAIN cur.calls :
            cur.calls[i].fn \in {"Chroma.from_documents", "add_documents"} =>
                LET texts == cur.calls[i].arg.texts
                    contents == cur.calls[i].arg.page_contents
                IN /\ \A j \in DOMAIN contents : TextLen(contents[j]) <= 1000
                   /\ \A j, k \in DOMAIN texts :
                         (j # k /\ texts[j].doc = texts[k].doc) =>
                            \A x \in DOMAIN texts[j].paras :
                               \A y \in DOMAIN texts[k].paras :
                                  texts[j].paras[x] # texts[k].paras[y]

\* C6: when a delegated call fails, the operation ends with that failure
\* unchanged; no delegated call is attempted twice and none runs after the
\* failed one (no persist() after a failed creation or add, no model call
\* after a failed retrieval).
C6_FailurePropagates ==
    Running =>
        /\ \A i, j \in DOMAIN cur.calls :
              i # j => cur.calls[i].fn # cur.calls[j].fn
        /\ \A i \in DOMAIN cur.calls :
              cur.calls[i].raised =>
                 /\ i = Len(cur.calls)
                 /\ cur.raised
                 /\ cur.result = cur.calls[i].val
                 /\ cur.result.err \in Errors

C6_Witness ==
    /\ cur.op = "create_collection"
    /\ cur.raised
    /\ Fns(cur.calls) = <<"split_documents", "Chroma.from_documents">>
    /\ cur.result = [type |-> "Exception", err |-> "APIError"]
    /\ store = [a \in Addresses |-> EmptyBag]

\* C7 as stated: the retriever load_retriever produces is configured with
\* search type "similarity" and k = 5, and a query returns at most 5 chunks.
C7_FixedConfig ==
    /\ (cur.op = "load_retriever" /\ ~cur.raised) =>
          (cur.result.search_type = "similarity" /\ cur.result.k = 5)
    /\ (cur.op = "retriever.invoke" /\ ~cur.raised) =>
          BagCardinality(cur.result.documents) <= 5

\* C7 as amended: "similarity" and 5 are the defaults of load_retriever: the
\* retriever carries them when the caller leaves the arguments out and the
\* caller's values otherwise, and a query returns at most the retriever's k
\* chunks.
C7_DefaultConfig ==
    /\ (cur.op = "load_retriever" /\ ~cur.raised) =>
          /\ cur.result.search_type
               = (IF cur.args.search_type.given
                  THEN cur.args.search_type.value ELSE "similarity")
          /\ cur.result.k
               = (IF cur.args.k.given THEN cur.args.k.value ELSE 5)
    /\ (cur.op = "retriever.invoke" /\ ~cur.raised) =>
          /\ cur.args.retriever.k \in {IF k.given THEN k.value ELSE 5 : k \in KArgs}
          /\ BagCardinality(cur.result.documents) <= cur.args.retriever.k

C7_Witness ==
    /\ cur.op = "retriever.invoke"
    /\ ~cur.raised
    /\ cur.args.retriever = [type |-> "Retriever", addr |-> Persisted("n1"),
                             search_type |-> "similarity", k |-> 5]
    /\ BagCardinality(store[Persisted("n1")]) = 6
    /\ BagCardinality(cur.result.documents) = 5

\* C8: create_collection and add_documents_to_collection split the documents,
\* hand all the chunks to the store and then call persist(), once; neither
\* returns before persist() has, and both return None.
C8_SplitAddPersist ==
    IsIngest =>
        LET n == Len(cur.calls)
        IN /\ IsPrefix(Fns(cur.calls), <<"split_documents", WriteFn, "persist">>)
           /\ cur.calls[1].arg.documents = cur.args.documents
           /\ n >= 2 => cur.calls[2].arg.texts = cur.calls[1].val.texts
           /\ n >= 3 => SeqToBag(cur.calls[2].arg.page_contents)
                           \sqsubseteq store[cur.calls[2].arg.addr]
           /\ ~cur.raised => /\ n = 3
                             /\ ~cur.calls[3].raised
                             /\ cur.result = NoneVal

C8_Witness ==
    /\ cur.op = "add_documents_to_collection"
    /\ ~cur.raised
    /\ Len(cur.calls[2].arg.texts) = 2
    /\ Fns(cur.calls) = <<"split_documents", "add_documents", "persist">>

\* the chunks an operation adds under an address, by its arguments
AddedBy(c, a) ==
    IF /\ c.op \in {"create_collection", "add_documents_to_collection"}
       /\ Len(c.calls) >= 2
       /\ ~c.calls[2].raised
       /\ a = (IF c.op = "create_collection"
               THEN Persisted(c.args.collection_name)
               ELSE c.args.vectordb.addr)
    THEN SeqToBag(c.calls[2].arg.page_contents)
    ELSE EmptyBag

====
